---- MODULE Spec2Model ----
(***************************************************************************)
(* The dataset readers of blocks/datasets/one_billion_word.py (TextFile    *)
(* and OneBillionWord) as a state machine.  A reader object is built, one  *)
(* state is opened on it, and get_data is called on that state.  A call    *)
(* runs one step per file operation (readline, close, open) of its loop.   *)
(*                                                                         *)
(* A Python string is a sequence of one-character strings; a file is the   *)
(* string of its content and a file object an offset into it.  None is the *)
(* one-element sequence <<"None">>, which is no string.                    *)
(***************************************************************************)
EXTENDS Integers, Sequences, FiniteSets, TLC

(***************************************************************************)
(* Bounds.                                                                 *)
(***************************************************************************)
MaxFiles == 3

MaxRequest == 3

(***************************************************************************)
(* Python values.                                                          *)
(***************************************************************************)
None == <<"None">>

\* bool(x) of a str-or-None value: None and '' are false.
Truthy(x) == x # None /\ x # <<>>

\* The characters str.split() separates at (those of the sample corpus).
Whitespace == {" ", "\n"}

\* str.lower on one character of the sample corpus.
LowerChar(c) ==
    CASE c = "T" -> "t"
      [] c = "A" -> "a"
      [] OTHER -> c

str_lower(s) == [i \in 1..Len(s) |-> LowerChar(s[i])]

\* The preprocess argument: None, or the function named (str.lower).
ApplyPreprocess(preprocess, sentence) ==
    IF preprocess = "str.lower" THEN str_lower(sentence) ELSE sentence

\* sentence.split(): the maximal runs of non-whitespace characters, in order.
\* cur is the run being collected from position i on.
RECURSIVE SplitFrom(_, _, _)
SplitFrom(s, i, cur) ==
    IF i > Len(s)
    THEN IF cur = <<>> THEN <<>> ELSE <<cur>>
    ELSE IF s[i] \in Whitespace
         THEN IF cur = <<>>
              THEN SplitFrom(s, i + 1, <<>>)
              ELSE <<cur>> \o SplitFrom(s, i + 1, <<>>)
         ELSE SplitFrom(s, i + 1, Append(cur, s[i]))

str_split(s) == SplitFrom(s, 1, <<>>)

\* dictionary.get(word, default)
dict_get(dictionary, word, default) ==
    IF word \in DOMAIN dictionary THEN dictionary[word] ELSE default

\* Mutant of readline: file.read(), the rest of the file.
readline_to_end(content, pos) == SubSeq(content, pos + 1, Len(content))

\* file.readline() at offset pos of content: the characters up to and
\* including the next newline, or up to the end of the file; '' at the end.
readline(content, pos) ==
    LET nl == {j \in (pos + 1)..Len(content) : content[j] = "\n"}
        last == IF nl = {}
                THEN Len(content)
                ELSE CHOOSE j \in nl : \A k \in nl : j <= k
    IN  SubSeq(content, pos + 1, last)

(***************************************************************************)
(* The sample corpus.  A file is written as the sequence of its lines      *)
(* (each ends with a newline, but the last of a file need not); the reader *)
(* sees only their concatenation.                                          *)
(***************************************************************************)
LineSentence == <<"T", "h", "i", "s", " ", "i", "s", " ", "a", " ", "s", "e", "n", "t", "e", "n", "c", "e", "\n">>

LineAnother == <<"T", "h", "i", "s", " ", "a", "n", "o", "t", "h", "e", "r", " ", "o", "n", "e">>

LineBlank == <<"\n">>

LineAOne == <<"A", " ", "o", "n", "e", "\n">>

\* An empty file (0 lines).
FileEmpty == <<>>

\* The file of TextFile's docstring example (lines 44-46).
FileDoc == <<LineSentence, LineAnother>>

\* A file with a blank line before a sentence.
FileBlank == <<LineBlank, LineAOne>>

FileSet == {FileEmpty, FileDoc, FileBlank}

RECURSIVE Concat(_)
Concat(ss) == IF ss = <<>> THEN <<>> ELSE Head(ss) \o Concat(Tail(ss))

\* The corpora: 1..MaxFiles files in order.
Corpora == UNION {[1..n -> FileSet] : n \in 1..MaxFiles}

(***************************************************************************)
(* The sample tokens and dictionaries.                                     *)
(***************************************************************************)
TokBOS == <<"<", "S", ">">>

TokEOS == <<"<", "/", "S", ">">>

TokUNK == <<"<", "U", "N", "K", ">">>

TokEmpty == <<>>

WordThis == <<"t", "h", "i", "s">>

WordA == <<"a">>

WordOne == <<"o", "n", "e">>

\* The dictionary of TextFile's docstring example (line 47).
DictDoc ==
    (TokUNK :> 0) @@ (TokEOS :> 1) @@ (WordThis :> 2) @@ (WordA :> 3) @@
    (WordOne :> 4)

\* With <S>, and with the empty string as a token.
DictFull == DictDoc @@ (TokBOS :> 5) @@ (TokEmpty :> 6)

\* Without <UNK>.
DictNoUnk == (TokBOS :> 5) @@ (TokEOS :> 1) @@ (WordThis :> 2)

\* Without </S>.
DictNoEos == (TokUNK :> 0) @@ (TokBOS :> 5) @@ (WordThis :> 2)

DictSet == {DictDoc, DictFull, DictNoUnk, DictNoEos}

BosTokens == {None, TokBOS, TokEmpty}

EosTokens == {None, TokEOS, TokEmpty}

Preprocessors == {"None", "str.lower"}

(***************************************************************************)
(* The state.                                                              *)
(***************************************************************************)
VARIABLES
    self,      \* the reader object: its class and constructor arguments
    corpus,    \* the lines of each file of self.files, as written to disk
    state,     \* the state object open() returned: current_index, file
    handles,   \* every file object opened so far: index, pos, closed
    pc,        \* where the program is: new, failed, constructed, idle,
               \* or inside get_data at readline, close or advance
    request,   \* the request argument of the current or last get_data call:
               \* <<>> is None, <<n>> the integer n
    data,      \* OneBillionWord.get_data's local list of sentences
    result,    \* how the last call ended
    prev,      \* how the get_data call before it ended
    returned,  \* every sentence returned so far, in order
    consumed,  \* the number of lines readline has read so far
    reads,     \* TextFile.get_data(state, None) calls made (counted up to
               \* two past the number of lines)
    other,     \* the second state opened on the reader, while the caller
               \* reads the first: what state, result, prev, returned,
               \* consumed and reads hold for it
    main_loop, \* the training process: structure, extension, parameters,
               \* log
    disk,      \* what the checkpoint destination holds
    xpc,       \* where the training process is: before_training, training,
               \* or inside an extension
    hist       \* the last extension call: which, whether it failed, and
               \* main_loop and disk when it was entered

readerVars ==
    <<self, corpus, state, handles, pc, request, data, result, prev,
      returned, consumed, reads>>

checkpointVars == <<main_loop, disk, xpc, hist>>

vars == <<readerVars, other, checkpointVars>>

\* ---------------------------------------------------------------------
\* The training process and the checkpoint destination
\* (blocks/extensions/saveload.py)
\* ---------------------------------------------------------------------

\* The training iterations a process runs.
MaxIterations == 2

LOADED_FROM == "loaded_from"

SAVING_DONE_TO == "saving_done_to"

\* A key the row does not hold.
Absent == <<"absent">>

\* The row of the log a process writes to: a dict, as a record of its two
\* keys.
NewRow == [saving_done_to |-> Absent, loaded_from |-> Absent]

\* The destinations: SerializeMainLoop.path and the folder of the
\* MainLoopStateManager, as path components.
PicklePath == <<"checkpoint", "main_loop.pkl">>

StateFolder == <<"checkpoint", "state">>

Structures == {"mlp", "rnn"}

SaveExtensions == {"SerializeMainLoop", "SaveTrainingState"}

\* A process as it is constructed: no iteration done, one log row.
NewMainLoop(structure, extension) ==
    [structure |-> structure, extension |-> extension, parameters |-> 0,
     log |-> <<NewRow>>]

\* log.current_row
current_row(ml) == ml.log[Len(ml.log)]

\* log.current_row[key] = value
set_current_row(ml, key, value) ==
    [ml EXCEPT !.log[Len(ml.log)] =
        IF key = SAVING_DONE_TO
        THEN [@ EXCEPT !.saving_done_to = value]
        ELSE [@ EXCEPT !.loaded_from = value]]

\* Where the save extension of a process writes.
Destination(ml) ==
    IF ml.extension = "SerializeMainLoop" THEN PicklePath ELSE StateFolder

\* The destination before anything was written, a file open(path, "wb")
\* has truncated and dill.dump has not completed, a complete pickle, and a
\* snapshot the manager wrote.
NoFile == [kind |-> "missing", snapshot |-> <<>>]

PartialFile == [kind |-> "partial", snapshot |-> <<>>]

PickleOf(ml) == [kind |-> "pickle", snapshot |-> <<ml>>]

StateOf(ml) == [kind |-> "state", snapshot |-> <<ml>>]

HoldsSnapshot(file) == file.kind \in {"pickle", "state"}

\* No extension was called yet.
NoCall ==
    [call |-> "none", failed |-> FALSE, exc |-> "", main_loop |-> <<>>,
     disk |-> NoFile, saved |-> <<>>]

\* The exceptions a failing open, dill.dump, manager.save or
\* manager.load_to raises.
Exceptions == {"IOError", "PicklingError", "RestoreError"}

\* Line 48 and lines 79-80: the row is stamped with the destination before
\* anything is serialized.
stamp_skipped(ml, destination) == ml

stamp(ml, destination) == set_current_row(ml, SAVING_DONE_TO, destination)

\* Lines 52 and 82: a bare except catches whatever the try block raised.
do_catches_IOError(exc) == exc = "IOError"

do_catches(exc) == TRUE

\* Lines 53 and 83.
do_except(ml) == set_current_row(ml, SAVING_DONE_TO, None)

\* Line 66: a bare except as well.
before_training_catches_RestoreError(exc) == exc = "RestoreError"

before_training_catches(exc) == TRUE

\* Line 65.
mark_loaded_skipped(ml, folder) == ml

mark_loaded(ml, folder) == set_current_row(ml, LOADED_FROM, folder)

\* MainLoopStateManager.load_to: the live process takes the parameters,
\* the iteration state and the log of the snapshot, in place.
load_to(ml, snapshot) ==
    [ml EXCEPT !.parameters = snapshot.parameters, !.log = snapshot.log]

\* MainLoopStateManager.load_to finds a snapshot it can install.
load_to_possible(ml, file) ==
    /\ file.kind = "state"
    /\ file.snapshot[1].structure = ml.structure

\* The reader is not part of a checkpoint run, and no checkpoint is part
\* of a reader run.
NoOther == <<>>

NoMainLoop == NewMainLoop("none", "none")

NoRequest == <<>>

\* No call has ended yet.
NoResult ==
    [kind |-> "none", data |-> <<>>, msg |-> "", request |-> NoRequest,
     before |-> 0]

\* A call in progress that started with before lines consumed.
Running(req, before) ==
    [kind |-> "running", data |-> <<>>, msg |-> "", request |-> req,
     before |-> before]

\* A call raised exception kind; before is consumed when it started.
Raised(kind, msg, req, before) ==
    [kind |-> kind, data |-> <<>>, msg |-> msg, request |-> req,
     before |-> before]

\* A call returned (d,).
Returned(d, req, before) ==
    [kind |-> "data", data |-> d, msg |-> "", request |-> req,
     before |-> before]

ClosedFileMsg == "I/O operation on closed file"

\* All lines of the corpus, in file order then line order.
AllLines == Concat(corpus)

\* open(path): a new file object on file number index (0-based) at offset 0.
open_file(index) == [index |-> index, pos |-> 0, closed |-> FALSE]

\* Mutant of file_close: the file object is left open.
file_close_skipped(f) == f

\* file.close()
file_close(f) == [f EXCEPT !.closed = TRUE]

\* Mutant of IsLastFile: the end of any file is taken for the end of the
\* corpus.
IsLastFile_any(current_index, files) == current_index <= Len(files) - 1

\* The test of line 94 and of line 181: the current file is the last one.
IsLastFile(current_index, files) == current_index = Len(files) - 1

NextIndex_skip(current_index) == current_index + 2

IsEmptyRead_or_blank(sentence) == str_split(sentence) = <<>>

\* Lines 92 and 179: not sentence, the read returned the empty string.
IsEmptyRead(sentence) == sentence = <<>>

\* Lines 97 and 187: state.current_index += 1
NextIndex(current_index) == current_index + 1

open_state_shared(h) == [current_index |-> 0, file |-> 1]

\* Lines 78-81 and 155-158: open() makes a new state with index 0 and the
\* file object it has just opened for files[0].
open_state(h) == [current_index |-> 0, file |-> Len(h) + 1]

(***************************************************************************)
(* TextFile                                                                *)
(***************************************************************************)
\* Mutant of TextFile_init_raises: a token is looked up even when None.
TextFile_init_raises_on_None(dictionary, bos_token, eos_token, unk_token) ==
    \/ bos_token \notin DOMAIN dictionary
    \/ eos_token \notin DOMAIN dictionary
    \/ unk_token \notin DOMAIN dictionary

\* The checks of TextFile.__init__ (lines 64-71): whether it raises.
TextFile_init_raises(dictionary, bos_token, eos_token, unk_token) ==
    \/ bos_token # None /\ bos_token \notin DOMAIN dictionary
    \/ eos_token # None /\ eos_token \notin DOMAIN dictionary
    \/ unk_token \notin DOMAIN dictionary

\* Mutant of TextFile_request_refused: the request is never looked at.
TextFile_request_ignored(req) == FALSE

\* Line 88: the request is refused.
TextFile_request_refused(req) == req # NoRequest

\* Lines 103-106 look up a key the dictionary lacks.  The default of
\* dictionary.get is evaluated once per word.
TextFile_KeyError(slf, words) ==
    \/ Truthy(slf.bos_token) /\ slf.bos_token \notin DOMAIN slf.dictionary
    \/ words # <<>> /\ slf.unk_token \notin DOMAIN slf.dictionary
    \/ Truthy(slf.eos_token) /\ slf.eos_token \notin DOMAIN slf.dictionary

\* Lines 101-106: the list of numbers of a sentence.
TextFile_numberize(slf, sentence) ==
    LET words == str_split(ApplyPreprocess(slf.preprocess, sentence))
        d == slf.dictionary
    IN  (IF Truthy(slf.bos_token) THEN <<d[slf.bos_token]>> ELSE <<>>)
        \o [i \in 1..Len(words) |-> dict_get(d, words[i], d[slf.unk_token])]
        \o (IF Truthy(slf.eos_token) THEN <<d[slf.eos_token]>> ELSE <<>>)

TextFile_init ==
    /\ pc = "new"
    /\ self.cls = "TextFile"
    /\ IF TextFile_init_raises(self.dictionary, self.bos_token,
                               self.eos_token, self.unk_token)
       THEN /\ pc' = "failed"
            /\ result' = Raised("ValueError", "", NoRequest, 0)
       ELSE /\ pc' = "constructed"
            /\ UNCHANGED result
    /\ UNCHANGED <<self, corpus, state, handles, request, data, prev,
                   returned, consumed, reads>>
    /\ UNCHANGED <<other, checkpointVars>>

TextFile_open ==
    /\ pc = "constructed"
    /\ self.cls = "TextFile"
    /\ handles' = Append(handles, open_file(0))
    /\ state' = open_state(handles)
    /\ pc' = "idle"
    /\ UNCHANGED <<self, corpus, request, data, result, prev, returned,
                   consumed, reads>>
    /\ UNCHANGED <<other, checkpointVars>>

\* get_data is entered (lines 87-89).
TextFile_get_data(req) ==
    /\ pc = "idle"
    /\ self.cls = "TextFile"
    /\ request' = req
    /\ prev' = result
    /\ IF TextFile_request_refused(req)
       THEN /\ result' = Raised("ValueError", "", req, consumed)
            /\ pc' = "idle"
            /\ UNCHANGED reads
       ELSE /\ result' = Running(req, consumed)
            /\ pc' = "readline"
            /\ reads' = IF reads <= Len(AllLines) + 1 THEN reads + 1
                        ELSE reads
    /\ UNCHANGED <<self, corpus, state, handles, data, returned,
                   consumed>>
    /\ UNCHANGED <<other, checkpointVars>>

\* Lines 91-92 and, for a sentence, 99-107.
TextFile_readline ==
    /\ pc = "readline"
    /\ self.cls = "TextFile"
    /\ LET f == handles[state.file]
           sentence == readline(self.files[f.index + 1], f.pos)
       IN  IF f.closed
           THEN /\ result' = Raised("ValueError", ClosedFileMsg, request,
                                    result.before)
                /\ pc' = "idle"
                /\ UNCHANGED <<handles, returned, consumed>>
           ELSE IF IsEmptyRead(sentence)
           THEN /\ pc' = "close"
                /\ UNCHANGED <<handles, result, returned, consumed>>
           ELSE /\ handles' = [handles EXCEPT ![state.file].pos =
                                   f.pos + Len(sentence)]
                /\ consumed' = consumed + 1
                /\ pc' = "idle"
                /\ IF TextFile_KeyError(self, str_split(
                          ApplyPreprocess(self.preprocess, sentence)))
                   THEN /\ result' = Raised("KeyError", "", request,
                                            result.before)
                        /\ UNCHANGED returned
                   ELSE /\ result' = Returned(
                               TextFile_numberize(self, sentence), request,
                               result.before)
                        /\ returned' = Append(returned,
                               TextFile_numberize(self, sentence))
    /\ UNCHANGED <<self, corpus, state, request, data, prev, reads>>
    /\ UNCHANGED <<other, checkpointVars>>

\* Lines 93-95.
TextFile_close ==
    /\ pc = "close"
    /\ self.cls = "TextFile"
    /\ handles' = [handles EXCEPT ![state.file] = file_close(@)]
    /\ IF IsLastFile(state.current_index, self.files)
       THEN /\ result' = Raised("StopIteration", "", request,
                                result.before)
            /\ pc' = "idle"
       ELSE /\ pc' = "advance"
            /\ UNCHANGED result
    /\ UNCHANGED <<self, corpus, state, request, data, prev, returned,
                   consumed, reads>>
    /\ UNCHANGED <<other, checkpointVars>>

\* Lines 97-98.
TextFile_advance ==
    /\ pc = "advance"
    /\ self.cls = "TextFile"
    /\ handles' = Append(handles,
                         open_file(NextIndex(state.current_index)))
    /\ state' = [current_index |-> NextIndex(state.current_index),
                 file |-> Len(handles) + 1]
    /\ pc' = "readline"
    /\ UNCHANGED <<self, corpus, request, data, result, prev, returned,
                   consumed, reads>>
    /\ UNCHANGED <<other, checkpointVars>>

(***************************************************************************)
(* OneBillionWord                                                          *)
(***************************************************************************)
\* Mutant of OneBillionWord_loop_continues: one sentence too many.
OneBillionWord_loop_one_more(d, n) == Len(d) <= n

\* Line 177: the loop goes on.
OneBillionWord_loop_continues(d, n) == Len(d) < n

OneBillionWord_no_data_always(d) == TRUE

\* Line 182: not data.
OneBillionWord_no_data(d) == d = <<>>

\* Lines 191-193 look up a key the dictionary lacks.
OneBillionWord_KeyError(slf, words) ==
    \/ TokBOS \notin DOMAIN slf.dictionary
    \/ words # <<>> /\ TokUNK \notin DOMAIN slf.dictionary
    \/ TokEOS \notin DOMAIN slf.dictionary

\* Lines 191-193: the list of numbers of a sentence.
OneBillionWord_numberize(slf, sentence) ==
    LET words == str_split(sentence)
        d == slf.dictionary
    IN  <<d[TokBOS]>>
        \o [i \in 1..Len(words) |-> dict_get(d, words[i], d[TokUNK])]
        \o <<d[TokEOS]>>

\* Lines 146-151: nothing is checked.
OneBillionWord_init ==
    /\ pc = "new"
    /\ self.cls = "OneBillionWord"
    /\ pc' = "constructed"
    /\ UNCHANGED <<self, corpus, state, handles, request, data, result,
                   prev, returned, consumed, reads>>
    /\ UNCHANGED <<other, checkpointVars>>

OneBillionWord_open ==
    /\ pc = "constructed"
    /\ self.cls = "OneBillionWord"
    /\ handles' = Append(handles, open_file(0))
    /\ state' = open_state(handles)
    /\ pc' = "idle"
    /\ UNCHANGED <<self, corpus, request, data, result, prev, returned,
                   consumed, reads>>
    /\ UNCHANGED <<other, checkpointVars>>

\* get_data is entered (lines 175-177) with request n.
OneBillionWord_get_data(n) ==
    /\ pc = "idle"
    /\ self.cls = "OneBillionWord"
    /\ request' = <<n>>
    /\ prev' = result
    /\ data' = <<>>
    /\ IF OneBillionWord_loop_continues(<<>>, n)
       THEN /\ result' = Running(<<n>>, consumed)
            /\ pc' = "readline"
       ELSE /\ result' = Returned(<<>>, <<n>>, consumed)
            /\ pc' = "idle"
    /\ UNCHANGED <<self, corpus, state, handles, returned, consumed,
                   reads>>
    /\ UNCHANGED <<other, checkpointVars>>

\* Lines 178-179 and, for a sentence, 189-194 and 177.
OneBillionWord_readline ==
    /\ pc = "readline"
    /\ self.cls = "OneBillionWord"
    /\ LET f == handles[state.file]
           sentence == readline(self.files[f.index + 1], f.pos)
       IN  IF f.closed
           THEN /\ result' = Raised("ValueError", ClosedFileMsg, request,
                                    result.before)
                /\ pc' = "idle"
                /\ UNCHANGED <<handles, data, returned, consumed>>
           ELSE IF IsEmptyRead(sentence)
           THEN /\ pc' = "close"
                /\ UNCHANGED <<handles, data, result, returned, consumed>>
           ELSE /\ handles' = [handles EXCEPT ![state.file].pos =
                                   f.pos + Len(sentence)]
                /\ consumed' = consumed + 1
                /\ IF OneBillionWord_KeyError(self, str_split(sentence))
                   THEN /\ result' = Raised("KeyError", "", request,
                                            result.before)
                        /\ pc' = "idle"
                        /\ UNCHANGED <<data, returned>>
                   ELSE LET d == Append(data,
                                 OneBillionWord_numberize(self, sentence))
                        IN  /\ data' = d
                            /\ IF OneBillionWord_loop_continues(d,
                                                                request[1])
                               THEN /\ pc' = "readline"
                                    /\ UNCHANGED <<result, returned>>
                               ELSE /\ pc' = "idle"
                                    /\ result' = Returned(d, request,
                                                          result.before)
                                    /\ returned' = returned \o d
    /\ UNCHANGED <<self, corpus, state, request, prev, reads>>
    /\ UNCHANGED <<other, checkpointVars>>

\* Lines 180-185 and 194.
OneBillionWord_close ==
    /\ pc = "close"
    /\ self.cls = "OneBillionWord"
    /\ handles' = [handles EXCEPT ![state.file] = file_close(@)]
    /\ IF IsLastFile(state.current_index, self.files)
       THEN /\ pc' = "idle"
            /\ IF OneBillionWord_no_data(data)
               THEN /\ result' = Raised("StopIteration", "", request,
                                        result.before)
                    /\ UNCHANGED returned
               ELSE /\ result' = Returned(data, request, result.before)
                    /\ returned' = returned \o data
       ELSE /\ pc' = "advance"
            /\ UNCHANGED <<result, returned>>
    /\ UNCHANGED <<self, corpus, state, request, data, prev, consumed,
                   reads>>
    /\ UNCHANGED <<other, checkpointVars>>

\* Lines 187-188.
OneBillionWord_advance ==
    /\ pc = "advance"
    /\ self.cls = "OneBillionWord"
    /\ handles' = Append(handles,
                         open_file(NextIndex(state.current_index)))
    /\ state' = [current_index |-> NextIndex(state.current_index),
                 file |-> Len(handles) + 1]
    /\ pc' = "readline"
    /\ UNCHANGED <<self, corpus, request, data, result, prev, returned,
                   consumed, reads>>
    /\ UNCHANGED <<other, checkpointVars>>

(***************************************************************************)
(* The program: a reader is constructed over a corpus, opened once, and    *)
(* read.                                                                   *)
(***************************************************************************)
\* The file contents the reader's files (or partitions) name.
ContentsOf(c) == [i \in 1..Len(c) |-> Concat(c[i])]

\* level is stored by __init__ (line 73) and read nowhere: every reader
\* numberizes words.
TextFileArgs(c) ==
    {[cls |-> "TextFile", files |-> ContentsOf(c), dictionary |-> d,
      bos_token |-> b, eos_token |-> e, unk_token |-> TokUNK,
      preprocess |-> p] :
        d \in DictSet, b \in BosTokens, e \in EosTokens,
        p \in Preprocessors}

\* which_set and which_partitions only name the files (lines 161-173);
\* files holds what those files contain.
OneBillionWordArgs(c) ==
    {[cls |-> "OneBillionWord", files |-> ContentsOf(c), dictionary |-> d,
      preprocess |-> p] :
        d \in DictSet, p \in Preprocessors}

\* The requests get_data is called with: None or a positive count.
TextFileRequests == {NoRequest} \cup {<<n>> : n \in 1..MaxRequest}

Init ==
    /\ corpus \in Corpora
    /\ self \in TextFileArgs(corpus) \cup OneBillionWordArgs(corpus)
    /\ state = [current_index |-> 0, file |-> 0]
    /\ handles = <<>>
    /\ pc = "new"
    /\ request = NoRequest
    /\ data = <<>>
    /\ result = NoResult
    /\ prev = NoResult
    /\ returned = <<>>
    /\ consumed = 0
    /\ reads = 0
    /\ other = NoOther
    /\ main_loop = NoMainLoop
    /\ disk = NoFile
    /\ xpc = "none"
    /\ hist = NoCall

\* The steps inside a get_data call.
Step ==
    \/ TextFile_readline
    \/ TextFile_close
    \/ TextFile_advance
    \/ OneBillionWord_readline
    \/ OneBillionWord_close
    \/ OneBillionWord_advance

Next ==
    \/ TextFile_init
    \/ TextFile_open
    \/ \E req \in TextFileRequests : TextFile_get_data(req)
    \/ OneBillionWord_init
    \/ OneBillionWord_open
    \/ \E n \in 1..MaxRequest : OneBillionWord_get_data(n)
    \/ Step

Spec == Init /\ [][Next]_vars

\* ---------------------------------------------------------------------
\* Saving and loading the training process
\* ---------------------------------------------------------------------

\* The record of an extension call that was entered.
Entered(call) ==
    [call |-> call, failed |-> FALSE, exc |-> "",
     main_loop |-> <<main_loop>>, disk |-> disk, saved |-> hist.saved]

\* The try block raised exc.
Failed(exc) == [hist EXCEPT !.failed = TRUE, !.exc = exc]

\* The save completed: what it saved is the process as do() found it.
Saved == [hist EXCEPT !.saved = hist.main_loop]

\* One training iteration: the parameters move and the log opens the row
\* of the next iteration.
MainLoop_train ==
    /\ xpc = "training"
    /\ Len(main_loop.log) <= MaxIterations
    /\ main_loop' = [main_loop EXCEPT !.parameters = @ + 1,
                                      !.log = Append(@, NewRow)]
    /\ hist' = [hist EXCEPT !.call = "train"]
    /\ UNCHANGED <<disk, xpc>>
    /\ UNCHANGED <<readerVars, other>>

\* SerializeMainLoop.do, line 48.
SerializeMainLoop_do ==
    /\ xpc = "training"
    /\ main_loop.extension = "SerializeMainLoop"
    /\ main_loop' = stamp(main_loop, PicklePath)
    /\ hist' = Entered("save")
    /\ xpc' = "open"
    /\ UNCHANGED disk
    /\ UNCHANGED <<readerVars, other>>

\* Line 49: open(self.path, "wb") truncates the file, or fails.
SerializeMainLoop_open ==
    /\ xpc = "open"
    /\ \/ /\ disk' = PartialFile
          /\ xpc' = "dump"
          /\ UNCHANGED hist
       \/ /\ hist' = Failed("IOError")
          /\ xpc' = "except"
          /\ UNCHANGED disk
    /\ UNCHANGED main_loop
    /\ UNCHANGED <<readerVars, other>>

\* Lines 50-51: dill.dump writes the whole process, or fails part way; the
\* with statement closes the file either way.
SerializeMainLoop_dump ==
    /\ xpc = "dump"
    /\ \/ /\ disk' = PickleOf(main_loop)
          /\ hist' = Saved
          /\ xpc' = "training"
       \/ /\ \E exc \in {"IOError", "PicklingError"} : hist' = Failed(exc)
          /\ xpc' = "except"
          /\ UNCHANGED disk
    /\ UNCHANGED main_loop
    /\ UNCHANGED <<readerVars, other>>

\* Lines 52-53.
SerializeMainLoop_except ==
    /\ xpc = "except"
    /\ main_loop.extension = "SerializeMainLoop"
    /\ IF do_catches(hist.exc)
       THEN /\ main_loop' = do_except(main_loop)
            /\ xpc' = "training"
       ELSE /\ xpc' = "raised"
            /\ UNCHANGED main_loop
    /\ UNCHANGED <<disk, hist>>
    /\ UNCHANGED <<readerVars, other>>

\* SaveTrainingState.do, lines 79-80.
SaveTrainingState_do ==
    /\ xpc = "training"
    /\ main_loop.extension = "SaveTrainingState"
    /\ main_loop' = stamp(main_loop, StateFolder)
    /\ hist' = Entered("save")
    /\ xpc' = "save"
    /\ UNCHANGED disk
    /\ UNCHANGED <<readerVars, other>>

\* Line 81, MainLoopStateManager.save: the folder holds the snapshot of
\* the process it was given, or, when it fails, what it held before.
MainLoopStateManager_save ==
    /\ xpc = "save"
    /\ \/ /\ disk' = StateOf(main_loop)
          /\ hist' = Saved
          /\ xpc' = "training"
       \/ /\ \E exc \in {"IOError", "PicklingError"} : hist' = Failed(exc)
          /\ xpc' = "except"
          /\ UNCHANGED disk
    /\ UNCHANGED main_loop
    /\ UNCHANGED <<readerVars, other>>

\* Lines 82-83.
SaveTrainingState_except ==
    /\ xpc = "except"
    /\ main_loop.extension = "SaveTrainingState"
    /\ IF do_catches(hist.exc)
       THEN /\ main_loop' = do_except(main_loop)
            /\ xpc' = "training"
       ELSE /\ xpc' = "raised"
            /\ UNCHANGED main_loop
    /\ UNCHANGED <<disk, hist>>
    /\ UNCHANGED <<readerVars, other>>

\* LoadTrainingState.before_training, lines 60-68: load_to installs the
\* snapshot of the folder and the row is marked, or load_to raises and the
\* error is logged.
LoadTrainingState_before_training ==
    /\ xpc = "before_training"
    /\ \/ /\ load_to_possible(main_loop, disk)
          /\ main_loop' =
                mark_loaded(load_to(main_loop, disk.snapshot[1]),
                            StateFolder)
          /\ hist' = Entered("load")
          /\ xpc' = "training"
       \/ \E exc \in {"IOError", "RestoreError"} :
             /\ exc = "RestoreError" => ~load_to_possible(main_loop, disk)
             /\ hist' = [Entered("load") EXCEPT !.failed = TRUE,
                                                !.exc = exc]
             /\ xpc' = IF before_training_catches(exc)
                       THEN "training"
                       ELSE "raised"
             /\ UNCHANGED main_loop
    /\ UNCHANGED disk
    /\ UNCHANGED <<readerVars, other>>

\* The process ends and a new one is constructed with the same
\* extensions, of the same structure or of another one; a process with
\* LoadTrainingState starts with before_training.
MainLoop_restart ==
    /\ xpc = "training"
    /\ \E structure \in Structures :
          main_loop' = NewMainLoop(structure, main_loop.extension)
    /\ xpc' = IF main_loop.extension = "SaveTrainingState"
              THEN "before_training"
              ELSE "training"
    /\ hist' = [hist EXCEPT !.call = "restart"]
    /\ UNCHANGED disk
    /\ UNCHANGED <<readerVars, other>>

\* "The pickled main loop can be later reloaded and training can be
\* resumed": the process is the one the pickle holds.
SerializeMainLoop_reload ==
    /\ xpc = "training"
    /\ hist.call = "restart"
    /\ disk.kind = "pickle"
    /\ main_loop' = disk.snapshot[1]
    /\ hist' = Entered("reload")
    /\ UNCHANGED <<disk, xpc>>
    /\ UNCHANGED <<readerVars, other>>

\* ---------------------------------------------------------------------
\* Two states opened on one reader
\* ---------------------------------------------------------------------

\* The state the caller is reading with, and what was seen of it.
Session ==
    [state |-> state, result |-> result, prev |-> prev,
     returned |-> returned, consumed |-> consumed, reads |-> reads]

\* TextFile.open / OneBillionWord.open (lines 76-82, 153-159) is called a
\* second time: the caller goes on with the new state and keeps the first.
OpenAgain ==
    /\ pc = "idle"
    /\ other = NoOther
    /\ other' = <<Session>>
    /\ handles' = Append(handles, open_file(0))
    /\ state' = open_state(handles)
    /\ result' = NoResult
    /\ prev' = NoResult
    /\ returned' = <<>>
    /\ consumed' = 0
    /\ reads' = 0
    /\ UNCHANGED <<self, corpus, pc, request, data>>
    /\ UNCHANGED checkpointVars

\* Between two get_data calls the caller turns to its other state.
Switch ==
    /\ pc = "idle"
    /\ other # NoOther
    /\ other' = <<Session>>
    /\ state' = other[1].state
    /\ result' = other[1].result
    /\ prev' = other[1].prev
    /\ returned' = other[1].returned
    /\ consumed' = other[1].consumed
    /\ reads' = other[1].reads
    /\ UNCHANGED <<self, corpus, handles, pc, request, data>>
    /\ UNCHANGED checkpointVars

\* The files of a reader two states are opened on.
MaxFilesTwo == 2

\* A reader with the full dictionary and the default tokens, over every
\* arrangement of empty files and files of two lines.
TwoInit ==
    /\ Init
    /\ Len(corpus) <= MaxFilesTwo
    /\ \A i \in 1..Len(corpus) : corpus[i] \in {FileEmpty, FileBlank}
    /\ self.dictionary = DictFull
    /\ self.preprocess = "None"
    /\ self.cls = "TextFile" =>
          (self.bos_token = TokBOS /\ self.eos_token = TokEOS)

\* The calls are those a caller makes that reads: TextFile.get_data with
\* no request, OneBillionWord.get_data with a positive one.
TwoNext ==
    \/ TextFile_init
    \/ TextFile_open
    \/ TextFile_get_data(NoRequest)
    \/ OneBillionWord_init
    \/ OneBillionWord_open
    \/ \E n \in 1..MaxRequest : OneBillionWord_get_data(n)
    \/ Step
    \/ OpenAgain
    \/ Switch

TwoSpec == TwoInit /\ [][TwoNext]_vars

\* A checkpoint run reads no corpus.
ReaderIdle ==
    /\ corpus = <<>>
    /\ self = [cls |-> "none"]
    /\ state = [current_index |-> 0, file |-> 0]
    /\ handles = <<>>
    /\ pc = "none"
    /\ request = NoRequest
    /\ data = <<>>
    /\ result = NoResult
    /\ prev = NoResult
    /\ returned = <<>>
    /\ consumed = 0
    /\ reads = 0
    /\ other = NoOther

CheckpointInit ==
    /\ ReaderIdle
    /\ \E structure \in Structures, extension \in SaveExtensions :
          /\ main_loop = NewMainLoop(structure, extension)
          /\ xpc = IF extension = "SaveTrainingState"
                   THEN "before_training"
                   ELSE "training"
    /\ disk = NoFile
    /\ hist = NoCall

CheckpointNext ==
    \/ MainLoop_train
    \/ SerializeMainLoop_do
    \/ SerializeMainLoop_open
    \/ SerializeMainLoop_dump
    \/ SerializeMainLoop_except
    \/ SaveTrainingState_do
    \/ MainLoopStateManager_save
    \/ SaveTrainingState_except
    \/ LoadTrainingState_before_training
    \/ MainLoop_restart
    \/ SerializeMainLoop_reload

CheckpointSpec == CheckpointInit /\ [][CheckpointNext]_vars



(***************************************************************************)
(* What the claims speak of.                                               *)
(***************************************************************************)
IsTextFile == self.cls = "TextFile"

IsOneBillionWord == self.cls = "OneBillionWord"

InCall == pc \in {"readline", "close", "advance"}

\* The number of lines of the corpus.
TotalLines == Len(AllLines)

\* The file objects that are open.
OpenHandles == {h \in 1..Len(handles) : ~handles[h].closed}

\* The vocabulary has the three tokens OneBillionWord looks up.
VocabularyComplete == {TokBOS, TokEOS, TokUNK} \subseteq DOMAIN self.dictionary

\* The sequence of line k of the corpus, as its reader numberizes it.
SequenceOfLine(k) ==
    IF IsTextFile
    THEN TextFile_numberize(self, AllLines[k])
    ELSE OneBillionWord_numberize(self, AllLines[k])

Min(a, b) == IF a <= b THEN a ELSE b

\* The same program over every arrangement of empty and non-empty files,
\* with the full dictionary and the default tokens: what a call's progress
\* through the files depends on.
FairInit ==
    /\ Init
    /\ \A i \in 1..Len(corpus) : corpus[i] \in {FileEmpty, FileBlank}
    /\ self.dictionary = DictFull
    /\ self.preprocess = "None"
    /\ IsTextFile => (self.bos_token = TokBOS /\ self.eos_token = TokEOS)

\* A call that was entered runs on until it returns or raises.
FairSpec == FairInit /\ [][Next]_vars /\ WF_vars(Step)

(***************************************************************************)
(* C1.  TextFile: the first L get_data(state, None) calls on an opened     *)
(* state return the numberized lines of the corpus, in file order and      *)
(* within a file in line order, and call L+1 raises StopIteration (L the   *)
(* number of lines of all files).                                          *)
(***************************************************************************)
C1_LinesInOrderThenStop ==
    (IsTextFile /\ pc = "idle") =>
        /\ returned = [k \in 1..Min(reads, TotalLines) |-> SequenceOfLine(k)]
        /\ (result.request = NoRequest /\ reads >= 1 /\ reads <= TotalLines)
               => (result.kind = "data" /\ result.data = SequenceOfLine(reads))
        /\ (result.request = NoRequest /\ reads = TotalLines + 1)
               => result.kind = "StopIteration"

\* Two files or more with three lines or more were read to the end.
C1_Witness ==
    /\ IsTextFile
    /\ pc = "idle"
    /\ Len(self.files) >= 2
    /\ TotalLines >= 3
    /\ reads = TotalLines + 1
    /\ result.kind = "StopIteration"
    /\ Len(returned) = TotalLines

(***************************************************************************)
(* C2.  A call that meets empty files goes through them, whether they      *)
(* lead, lie between or trail: every call ends, and it ends with the next  *)
(* line of a later file (OneBillionWord: the next lines, fewer than asked  *)
(* for only when none is left) or, when no line is left, StopIteration.    *)
(***************************************************************************)
C2_NextLineOrStop ==
    (pc = "idle" /\ result.kind \in {"data", "StopIteration"}) =>
        /\ result.kind = "StopIteration" =>
               (result.before = TotalLines /\ consumed = TotalLines)
        /\ (result.kind = "data" /\ IsTextFile) =>
               /\ consumed = result.before + 1
               /\ result.data = SequenceOfLine(consumed)
        /\ (result.kind = "data" /\ IsOneBillionWord) =>
               /\ Len(result.data) = consumed - result.before
               /\ \A k \in 1..Len(result.data) :
                      result.data[k] = SequenceOfLine(result.before + k)
               /\ Len(result.data) < result.request[1] =>
                      consumed = TotalLines

C2_EmptyFilesSkipped ==
    /\ []C2_NextLineOrStop
    /\ InCall ~> (pc = "idle")

\* One call went through two leading empty files and returned the first
\* line of the third file.
C2_Witness ==
    /\ IsTextFile
    /\ pc = "idle"
    /\ Len(corpus) >= 3
    /\ corpus[1] = <<>>
    /\ corpus[2] = <<>>
    /\ reads = 1
    /\ state.current_index = 2
    /\ result.kind = "data"
    /\ result.data = SequenceOfLine(1)

(***************************************************************************)
(* C3 (as claimed).  Once a call on a state has raised StopIteration, the  *)
(* next get_data call with a valid request raises StopIteration again.     *)
(***************************************************************************)
C3_StopIterationAgain ==
    (/\ pc = "idle"
     /\ prev.kind = "StopIteration"
     /\ IsTextFile => result.request = NoRequest)
        => result.kind = "StopIteration"

(***************************************************************************)
(* C4.  At most one file object is open at any time; none is open when the *)
(* next file is about to be opened, and none once StopIteration was        *)
(* raised.                                                                 *)
(***************************************************************************)
C4_OneHandleOpen ==
    /\ Cardinality(OpenHandles) <= 1
    /\ pc = "advance" => OpenHandles = {}
    /\ (pc = "idle" /\ "StopIteration" \in {result.kind, prev.kind})
           => OpenHandles = {}

\* The third file is about to be opened and the two before it are closed.
C4_Witness ==
    /\ pc = "advance"
    /\ Len(handles) = 2
    /\ handles[1].closed
    /\ handles[2].closed

(***************************************************************************)
(* C5 (as claimed).  OneBillionWord: a call asking for N sentences when M  *)
(* lines are left, 0 < M < N, returns M sentences, and the call after it   *)
(* raises StopIteration.  Stated for a vocabulary with all three tokens.   *)
(***************************************************************************)
C5_PartialBatchThenStop ==
    (/\ IsOneBillionWord
     /\ VocabularyComplete
     /\ pc = "idle"
     /\ prev.kind # "none"
     /\ TotalLines - prev.before > 0
     /\ TotalLines - prev.before < prev.request[1])
        => /\ prev.kind = "data"
           /\ Len(prev.data) = TotalLines - prev.before
           /\ result.kind = "StopIteration"

(***************************************************************************)
(* C6.  OneBillionWord, request N > 0: a batch returned has between 1 and  *)
(* N sentences, and fewer than N only when the last partition came to its  *)
(* end in that call; StopIteration is raised only by a call that collected *)
(* nothing.                                                                *)
(***************************************************************************)
C6_BatchSize ==
    (IsOneBillionWord /\ pc = "idle") =>
        /\ result.kind = "data" =>
               /\ Len(result.data) >= 1
               /\ Len(result.data) <= result.request[1]
               /\ Len(result.data) < result.request[1] =>
                      /\ IsLastFile(state.current_index, self.files)
                      /\ handles[state.file].closed
                      /\ handles[state.file].pos =
                             Len(self.files[state.current_index + 1])
        /\ result.kind = "StopIteration" => consumed = result.before

\* A batch of two was returned to a call that asked for three.
C6_Witness ==
    /\ IsOneBillionWord
    /\ pc = "idle"
    /\ result.kind = "data"
    /\ result.request = <<3>>
    /\ Len(result.data) = 2

(***************************************************************************)
(* C7.  TextFile.get_data with a request that is not None raises           *)
(* ValueError whatever the state, and changes nothing: no line is read,    *)
(* the index stays and no file is opened or closed.                        *)
(***************************************************************************)
C7_RequestRefused ==
    [][(pc = "idle" /\ IsTextFile /\ request' # NoRequest) =>
           /\ result'.kind = "ValueError"
           /\ result'.msg = ""
           /\ pc' = "idle"
           /\ state' = state
           /\ handles' = handles
           /\ consumed' = consumed
           /\ returned' = returned]_vars

\* A request was refused on a state whose last file is closed.
C7_Witness ==
    /\ IsTextFile
    /\ pc = "idle"
    /\ request # NoRequest
    /\ result.kind = "ValueError"
    /\ result.msg = ""
    /\ prev.kind = "StopIteration"
    /\ handles[state.file].closed

(***************************************************************************)
(* C8.  TextFile.__init__ raises ValueError exactly when the unknown token *)
(* is not in the dictionary, or bos_token is not None and not in it, or    *)
(* eos_token is not None and not in it.                                    *)
(***************************************************************************)
C8_ConstructionFailsIff ==
    (IsTextFile /\ pc # "new") =>
        /\ pc = "failed" <=>
               \/ self.unk_token \notin DOMAIN self.dictionary
               \/ self.bos_token # None
                      /\ self.bos_token \notin DOMAIN self.dictionary
               \/ self.eos_token # None
                      /\ self.eos_token \notin DOMAIN self.dictionary
        /\ pc = "failed" => result.kind = "ValueError"

\* Constructed with bos_token None and a dictionary without <S>.
C8_Witness ==
    /\ IsTextFile
    /\ pc = "constructed"
    /\ self.bos_token = None
    /\ TokBOS \notin DOMAIN self.dictionary
    /\ self.eos_token = TokEOS

(***************************************************************************)
(* C9 (as claimed).  Once the reader is constructed, no get_data call      *)
(* fails on a token that the vocabulary lacks.                             *)
(***************************************************************************)
C9_NoKeyErrorAtRead == result.kind # "KeyError"

(***************************************************************************)
(* C10 (as claimed).  TextFile: the sequence returned for a line is the id *)
(* of bos_token if it is not None, then for each word of                   *)
(* preprocess(line).split() its id or else the id of the unknown token,    *)
(* then the id of eos_token if it is not None.                             *)
(***************************************************************************)
C10_ClaimedSequence(line) ==
    LET words == str_split(ApplyPreprocess(self.preprocess, line))
        d == self.dictionary
    IN  (IF self.bos_token # None THEN <<d[self.bos_token]>> ELSE <<>>)
        \o [i \in 1..Len(words) |->
               IF words[i] \in DOMAIN d THEN d[words[i]]
               ELSE d[self.unk_token]]
        \o (IF self.eos_token # None THEN <<d[self.eos_token]>> ELSE <<>>)

C10_SequenceOfLine ==
    (IsTextFile /\ pc = "idle" /\ result.kind = "data") =>
        result.data = C10_ClaimedSequence(AllLines[consumed])

\* ---------------------------------------------------------------------
\* Claims about saving and loading
\* ---------------------------------------------------------------------

\* A save extension's do() has returned.
SaveReturned == hist.call = "save" /\ xpc = "training"

\* C11: for both save extensions a failed save never propagates out of
\* do(), and when do() has returned the row's saving_done_to is the
\* destination exactly when the save succeeded, and None when it failed.
C11_SaveOutcomeInLog ==
    /\ hist.call = "save" => xpc # "raised"
    /\ SaveReturned =>
          /\ current_row(main_loop).saving_done_to = Destination(main_loop)
                <=> ~hist.failed
          /\ hist.failed => current_row(main_loop).saving_done_to = None

\* dill.dump failed with an error that is no I/O error, and do() returned.
C11_Witness ==
    /\ SaveReturned
    /\ main_loop.extension = "SerializeMainLoop"
    /\ hist.failed
    /\ hist.exc = "PicklingError"
    /\ current_row(main_loop).saving_done_to = None

\* C12: a save is atomic: when a save attempt to a destination that held a
\* valid snapshot is over, the destination holds a valid snapshot, and
\* after a failed attempt the one it held before.
C12_SaveIsAtomic ==
    (SaveReturned /\ HoldsSnapshot(hist.disk)) =>
        /\ HoldsSnapshot(disk)
        /\ hist.failed => disk = hist.disk

\* LoadTrainingState.before_training has returned.
LoadReturned == hist.call = "load" /\ xpc = "training"

\* C13: a failing load_to never propagates out of before_training; when
\* before_training has returned the row's loaded_from is the manager's
\* folder exactly when the load succeeded, and after a failed load
\* loaded_from is absent and the process, its log row included, is as it
\* was.
C13_LoadOutcomeInLog ==
    /\ hist.call = "load" => xpc # "raised"
    /\ LoadReturned =>
          /\ current_row(main_loop).loaded_from = StateFolder
                <=> ~hist.failed
          /\ hist.failed =>
                /\ current_row(main_loop).loaded_from = Absent
                /\ main_loop = hist.main_loop[1]

\* The folder holds the snapshot of a process of another structure:
\* load_to raised and before_training returned.
C13_Witness ==
    /\ LoadReturned
    /\ hist.failed
    /\ hist.exc = "RestoreError"
    /\ disk.kind = "state"
    /\ disk.snapshot[1].structure # main_loop.structure

\* A process took over a snapshot: LoadTrainingState.before_training
\* loaded it, or the pickle was reloaded.
Restored ==
    /\ hist.call \in {"load", "reload"}
    /\ ~hist.failed
    /\ xpc = "training"

\* C14 as the claim states it: the process a snapshot is loaded into is
\* the process as it was when the save began, log included.
C14_RoundTrip == Restored => main_loop = hist.saved[1]

\* C14: the process a snapshot is loaded into is the process as it was
\* when the save began, but for the row of its log that was current: there
\* saving_done_to is the destination, and after before_training
\* loaded_from is the manager's folder.
C14_RoundTripButStamps ==
    Restored =>
        main_loop =
            [hist.saved[1] EXCEPT !.log[Len(hist.saved[1].log)] =
                [saving_done_to |-> Destination(main_loop),
                 loaded_from |-> IF hist.call = "load"
                                 THEN StateFolder
                                 ELSE @.loaded_from]]

\* A process that had trained was saved, and a new process of its
\* structure loaded the snapshot.
C14_Witness ==
    /\ Restored
    /\ hist.call = "load"
    /\ hist.main_loop[1].parameters = 0
    /\ main_loop.parameters > 0
    /\ hist.saved[1].structure = main_loop.structure

\* C20: both save extensions stamp the row before they serialize and
\* reset it only after a failure: the log of every snapshot that was
\* written completely has saving_done_to equal to the destination in the
\* row that was current, never the None of a failure.
C20_SnapshotHoldsDestination ==
    HoldsSnapshot(disk) =>
        current_row(disk.snapshot[1]).saving_done_to
            = Destination(disk.snapshot[1])

\* An attempt failed and left None in the row; the next attempt, in the
\* same row, wrote its snapshot.
C20_Witness ==
    /\ SaveReturned
    /\ ~hist.failed
    /\ current_row(hist.main_loop[1]).saving_done_to = None
    /\ HoldsSnapshot(disk)
    /\ disk.snapshot[1] = main_loop

(***************************************************************************)
(* Claims about the readers, continued                                     *)
(***************************************************************************)
\* The last file was read to its end and closed.
Exhausted ==
    /\ pc = "idle"
    /\ state.file > 0
    /\ IsLastFile(state.current_index, self.files)
    /\ handles[state.file].closed

\* C15: OneBillionWord, positive requests: the batches returned, one after
\* the other, are the sequences of the lines read so far in partition
\* order and line order, none lost and none twice, and once the last
\* partition is exhausted those of every line of the corpus.
C15_BatchesAreTheCorpus ==
    (IsOneBillionWord /\ VocabularyComplete /\ pc = "idle") =>
        /\ consumed <= TotalLines
        /\ returned = [k \in 1..consumed |->
                          OneBillionWord_numberize(self, AllLines[k])]
        /\ Exhausted => consumed = TotalLines

\* The batch that took the last line of the corpus began in the first
\* partition.
C15_Witness ==
    /\ IsOneBillionWord
    /\ VocabularyComplete
    /\ pc = "idle"
    /\ result.kind = "data"
    /\ Len(corpus) >= 2
    /\ result.before < Len(corpus[1])
    /\ Len(corpus[1]) < consumed
    /\ Len(returned) = TotalLines

\* C16: OneBillionWord applies the preprocess function it was given to
\* each raw line before the line is split and numberized.
C16_PreprocessApplied ==
    (IsOneBillionWord /\ VocabularyComplete /\ pc = "idle") =>
        returned =
            [k \in 1..Len(returned) |->
                OneBillionWord_numberize(
                    self, ApplyPreprocess(self.preprocess, AllLines[k]))]

\* Once a state is open: the index is one of the files, the handle the
\* state holds is the one opened for the file at the index, the files
\* were opened one after the other, each once, a file is closed only
\* while it is open, and when the traversal is over every file was opened
\* and is closed.
C18_IndexAndHandle ==
    state.file > 0 =>
        /\ state.current_index \in 0..(Len(self.files) - 1)
        /\ state.file = Len(handles)
        /\ handles[state.file].index = state.current_index
        /\ \A h \in 1..Len(handles) : handles[h].index = h - 1
        /\ pc = "close" => ~handles[state.file].closed
        /\ Exhausted =>
              /\ Len(handles) = Len(self.files)
              /\ \A h \in 1..Len(handles) : handles[h].closed

\* The index moves by one, when a file that is not the last one was found
\* exhausted, and at no other step.
C18_IndexStep ==
    IF pc = "advance"
    THEN state'.current_index = state.current_index + 1
    ELSE state'.current_index = state.current_index

\* C18: current_index stays within [0, n-1] and never decreases, it grows
\* by one each time a file that is not the last is found exhausted, the
\* handle held is the one opened for files[current_index], and over a full
\* traversal each file is opened once and closed once.
C18_IndexMonotoneHandleMatches ==
    []C18_IndexAndHandle /\ [][C18_IndexStep]_vars

\* Three files were read to the end.
C18_Witness ==
    /\ Exhausted
    /\ Len(self.files) = 3
    /\ state.current_index = 2
    /\ consumed > 0
    /\ \A h \in 1..3 : handles[h].closed /\ handles[h].index = h - 1

\* A line that holds only a newline or whitespace.
IsBlankLine(line) == line # <<>> /\ str_split(line) = <<>>

\* The line the next readline of the state returns.
LineAtHandle ==
    readline(self.files[handles[state.file].index + 1],
             handles[state.file].pos)

\* What the claim gives for a blank line: the ids of the sentinels the
\* reader is configured with and nothing else, none when both are
\* disabled; both ids when the tokens are no empty strings (an empty
\* string as token is C10).
IsSentinelsOnly(sequence) ==
    LET d == self.dictionary
        b == IF IsTextFile THEN self.bos_token ELSE TokBOS
        e == IF IsTextFile THEN self.eos_token ELSE TokEOS
        bos == IF b = None THEN <<>> ELSE <<d[b]>>
        eos == IF e = None THEN <<>> ELSE <<d[e]>>
    IN  /\ \A i \in 1..Len(sequence) :
              sequence[i] \in {(bos \o eos)[j] : j \in 1..Len(bos \o eos)}
        /\ Len(sequence) <= Len(bos \o eos)
        /\ (b # TokEmpty /\ e # TokEmpty) => sequence = bos \o eos

\* The read of a blank line: the file stays open and current, the handle
\* moves past the line, and the line's sequence is handed out (TextFile)
\* or joins the batch (OneBillionWord).
C19_BlankReadStep ==
    (/\ pc = "readline"
     /\ IsOneBillionWord => VocabularyComplete
     /\ ~handles[state.file].closed
     /\ IsBlankLine(LineAtHandle))
        => /\ pc' \in {"idle", "readline"}
           /\ state' = state
           /\ ~handles'[state.file].closed
           /\ handles'[state.file].pos =
                  handles[state.file].pos + Len(LineAtHandle)
           /\ consumed' = consumed + 1
           /\ IF IsTextFile
              THEN /\ result'.kind = "data"
                   /\ IsSentinelsOnly(result'.data)
              ELSE /\ Len(data') = Len(data) + 1
                   /\ IsSentinelsOnly(data'[Len(data')])

\* Every blank line that was read is among the sequences returned, at its
\* place, and so is the line read after it.
C19_BlankLineReturned ==
    (pc = "idle" /\ (IsOneBillionWord => VocabularyComplete)) =>
        \A k \in 1..Len(returned) :
            IsBlankLine(AllLines[k]) =>
                /\ IsSentinelsOnly(returned[k])
                /\ k < Len(returned) =>
                      returned[k + 1] = SequenceOfLine(k + 1)

\* C19: only an empty read is taken as the end of a file: a blank line
\* inside a file is not skipped and neither closes nor advances the file,
\* it is returned as a sequence holding only the ids of the configured
\* sentinels (empty when both are disabled), and the lines after it in the
\* file are returned by later reads.
C19_BlankLineIsNotTheEnd ==
    []C19_BlankLineReturned /\ [][C19_BlankReadStep]_vars

\* TextFile without sentinels: the blank line came back as the empty
\* sequence and the read after it returned the next line of the file.
C19_Witness ==
    /\ IsTextFile
    /\ self.bos_token = None
    /\ self.eos_token = None
    /\ pc = "idle"
    /\ Len(returned) >= 2
    /\ IsBlankLine(AllLines[Len(returned) - 1])
    /\ returned[Len(returned) - 1] = <<>>
    /\ returned[Len(returned)] # <<>>
    /\ result.kind = "data"
    /\ result.data = returned[Len(returned)]
    /\ ~handles[state.file].closed

\* What a state shows between two calls when it is read alone: the lines
\* returned are the lines of the corpus in order, StopIteration comes only
\* when every line was returned, for TextFile on the call after the last
\* line, and a state whose last file is closed has returned every line.
ReadsTheCorpus(s) ==
    /\ s.consumed <= TotalLines
    /\ s.returned = [k \in 1..s.consumed |-> SequenceOfLine(k)]
    /\ s.result.kind = "StopIteration" => s.consumed = TotalLines
    /\ (/\ s.state.file > 0
        /\ IsLastFile(s.state.current_index, self.files)
        /\ handles[s.state.file].closed) => s.consumed = TotalLines
    /\ (/\ IsTextFile
        /\ s.result.request = NoRequest
        /\ s.reads = TotalLines + 1) => s.result.kind = "StopIteration"
    /\ s.state.file > 0 =>
          handles[s.state.file].index = s.state.current_index

\* Both states read the corpus as a state read alone does.
C17_BothReadTheCorpus ==
    pc = "idle" =>
        /\ ReadsTheCorpus(Session)
        /\ other # NoOther =>
              /\ ReadsTheCorpus(other[1])
              /\ other[1].state.file # state.file

\* A step of a call on one state leaves the other state, its index and its
\* file object as they are.
C17_OtherUntouched ==
    \/ OpenAgain
    \/ Switch
    \/ /\ other' = other
       /\ other # NoOther =>
             handles'[other[1].state.file] = handles[other[1].state.file]

\* C17: each open() gives a state of its own: with two states opened on
\* one reader and get_data calls on them interleaved in every way, each
\* state returns the whole corpus in order and then the end of the
\* corpus, and no read or exhaustion on one state changes the index or the
\* handle of the other.
C17_StatesAreIndependent ==
    []C17_BothReadTheCorpus /\ [][C17_OtherUntouched]_vars

\* One state was read to the end of a corpus of two files while the other
\* state stood inside the first file.
C17_Witness ==
    /\ pc = "idle"
    /\ other # NoOther
    /\ Len(self.files) >= 2
    /\ result.kind = "StopIteration"
    /\ consumed = TotalLines
    /\ other[1].consumed > 0
    /\ other[1].consumed < TotalLines
    /\ other[1].state.current_index = 0
    /\ ~handles[other[1].state.file].closed
    /\ handles[state.file].closed

====
